---- MODULE Spec2Model ----
(***************************************************************************)
(* DataVista: the insight generation and reporting pipeline.               *)
(*   utils/ai_insight.py      generate_data_summary, display_ai_summary    *)
(*   utils/report_generator.py clean_text_for_pdf, generate_combined_report*)
(*                                                                         *)
(* Text is modelled as a sequence of tokens (strings).  The four section   *)
(* markers, every run of whitespace and every bullet hyphen are tokens of  *)
(* their own, so that regular-expression search, str.strip and str.replace *)
(* act on the token sequence exactly as they act on the characters.        *)
(* Real numbers are scaled integers: correlation coefficients in           *)
(* thousandths, percentages in hundredths of a percent.                    *)
(***************************************************************************)
EXTENDS Integers, Sequences, FiniteSets, TLC

VARIABLES
    df,          \* the dataset handed to the pipeline (or None)
    summarizer,  \* module-level model handle of ai_insight.py
    pc,          \* position of the running operation
    attempt,     \* loop variable of the retry loop
    invoked,     \* outcomes of the summarizer invocations of the current call
    stats,       \* locals of generate_data_summary after the extraction
    narrative,   \* the composed narrative of the current call
    summary,     \* the text returned by generate_data_summary
    calls,       \* number of calls of generate_data_summary so far
    raised,      \* exception that left the last operation ("none" if none)
    sections,    \* the section blocks display_ai_summary rendered
    quality,     \* data-quality metric computed by display_ai_summary
    pdf,         \* what generate_combined_report handed to the PDF writer
    file,        \* the render call whose output the file at ReportPath holds
    download,    \* the document the session read back for the download button
    other        \* the other session that has the file open for writing (0: none)

vars == <<df, summarizer, pc, attempt, invoked, stats, narrative, summary,
          calls, raised, sections, quality, pdf, file, download, other>>

None == "None"

-----------------------------------------------------------------------------
(* Bounds of the model *)

MaxRows == 4
MaxCols == 3
MaxCalls == 2
MaxPageBreaks == 1

-----------------------------------------------------------------------------
(* Generic helpers *)

Min(a, b) == IF a < b THEN a ELSE b

\* The concatenation ss[lo] \o ... \o ss[hi].
RECURSIVE Flatten(_, _, _)
Flatten(ss, lo, hi) ==
    IF lo > hi THEN <<>>
    ELSE IF lo = hi THEN ss[lo]
    ELSE Flatten(ss, lo, (lo + hi) \div 2) \o Flatten(ss, (lo + hi) \div 2 + 1, hi)

\* The least element of a non-empty set of integers.
Least(S) == CHOOSE k \in S : \A j \in S : k <= j
Greatest(S) == CHOOSE k \in S : \A j \in S : k >= j

Prefix(s, n) == SubSeq(s, 1, Min(n, Len(s)))

-----------------------------------------------------------------------------
(* Binary floating point (the float of Python, IEEE 754 binary64).          *)
(* A natural number of any size is the sequence of its digits in base 2^13, *)
(* the most significant first and not 0; <<>> is zero.  A float is the      *)
(* record [neg, m, e] of value (-1)^neg * m * 2^e, with m below 2^53 (or    *)
(* 2^53 itself).  Divisors stay below 2^17, multipliers below 2^18.         *)

LimbBits == 13
LimbBase == 2 ^ LimbBits

\* The digit of weight LimbBase^i.
Limb(a, i) == IF i < Len(a) THEN a[Len(a) - i] ELSE 0

Trim(a) ==
    LET solid == {k \in 1..Len(a) : a[k] # 0}
    IN  IF solid = {} THEN <<>> ELSE SubSeq(a, Least(solid), Len(a))

RECURSIVE Limbs(_)
Limbs(n) == IF n = 0 THEN <<>> ELSE Append(Limbs(n \div LimbBase), n % LimbBase)

RECURSIVE NatOf(_)
NatOf(a) ==
    IF a = <<>> THEN 0
    ELSE LimbBase * NatOf(SubSeq(a, 1, Len(a) - 1)) + a[Len(a)]

\* The number of binary digits.
BitLen(a) ==
    IF a = <<>> THEN 0
    ELSE LimbBits * (Len(a) - 1) + Least({k \in 1..LimbBits : a[1] < 2 ^ k})

\* The binary digit of weight 2^i.
BitAt(a, i) == (Limb(a, i \div LimbBits) \div (2 ^ (i % LimbBits))) % 2

\* Whether a is not a multiple of 2^d.
LowBits(a, d) ==
    \/ \E i \in 0..((d \div LimbBits) - 1) : Limb(a, i) # 0
    \/ Limb(a, d \div LimbBits) % (2 ^ (d % LimbBits)) # 0

RECURSIVE AddFrom(_, _, _, _)
AddFrom(a, b, i, carry) ==
    IF i >= Len(a) /\ i >= Len(b) /\ carry = 0 THEN <<>>
    ELSE Append(AddFrom(a, b, i + 1, (Limb(a, i) + Limb(b, i) + carry) \div LimbBase),
                (Limb(a, i) + Limb(b, i) + carry) % LimbBase)
Add(a, b) == AddFrom(a, b, 0, 0)

\* a - b for a >= b
RECURSIVE SubFrom(_, _, _, _)
SubFrom(a, b, i, borrow) ==
    IF i >= Len(a) THEN <<>>
    ELSE Append(SubFrom(a, b, i + 1,
                        IF Limb(a, i) - Limb(b, i) - borrow < 0 THEN 1 ELSE 0),
                (Limb(a, i) - Limb(b, i) - borrow + LimbBase) % LimbBase)
Sub(a, b) == Trim(SubFrom(a, b, 0, 0))

Less(a, b) ==
    \/ Len(a) < Len(b)
    \/ /\ Len(a) = Len(b)
       /\ \E i \in 1..Len(a) : a[i] < b[i] /\ \A j \in 1..(i - 1) : a[j] = b[j]

RECURSIVE MulFrom(_, _, _, _)
MulFrom(a, k, i, carry) ==
    IF i >= Len(a) /\ carry = 0 THEN <<>>
    ELSE Append(MulFrom(a, k, i + 1, (Limb(a, i) * k + carry) \div LimbBase),
                (Limb(a, i) * k + carry) % LimbBase)
MulNat(a, k) == Trim(MulFrom(a, k, 0, 0))

\* a * 2^d and the integer part of a / 2^d
Shl(a, d) ==
    IF a = <<>> THEN <<>>
    ELSE MulNat(a, 2 ^ (d % LimbBits)) \o [k \in 1..(d \div LimbBits) |-> 0]
Shr(a, d) ==
    LET ls == d \div LimbBits
        bs == d % LimbBits
        n  == Len(a) - ls
    IN  IF n <= 0 THEN <<>>
        ELSE Trim([k \in 1..n |->
                    (Limb(a, n - k + ls) \div (2 ^ bs))
                    + (Limb(a, n - k + ls + 1) % (2 ^ bs)) * (2 ^ (LimbBits - bs))])

FloatZero == [neg |-> FALSE, m |-> <<>>, e |-> 0]

\* The float nearest to (-1)^neg * a * 2^e, ties to the even one; sticky says
\* that the exact value is a little more than a * 2^e.
Round53(neg, a, e, sticky) ==
    LET d    == BitLen(a) - 53
        keep == Shr(a, d)
        rest == sticky \/ LowBits(a, d - 1)
        up   == BitAt(a, d - 1) = 1 /\ (rest \/ BitAt(a, d) = 1)
    IN  IF a = <<>> THEN FloatZero
        ELSE IF d <= 0 THEN [neg |-> neg, m |-> a, e |-> e]
        ELSE [neg |-> neg, m |-> IF up THEN Add(keep, <<1>>) ELSE keep, e |-> e + d]

\* Long division of the number with the digits num by c: the quotient and
\* the remainder.
RECURSIVE LongDiv(_, _, _, _, _)
LongDiv(num, i, q, r, c) ==
    IF i > Len(num) THEN [q |-> Trim(q), r |-> r]
    ELSE LongDiv(num, i + 1, Append(q, (r * LimbBase + num[i]) \div c),
                 (r * LimbBase + num[i]) % c, c)

\* The float m / c of two natural numbers, c > 0.
FloatDiv(m, c) ==
    LET k == 6
        d == LongDiv(Limbs(m) \o [j \in 1..k |-> 0], 1, <<>>, 0, c)
    IN  IF m = 0 THEN FloatZero ELSE Round53(FALSE, d.q, 0 - k * LimbBits, d.r # 0)

\* The float x * k for a natural number k.
FloatMul(x, k) == Round53(x.neg, MulNat(x.m, k), x.e, FALSE)

\* The float 1 - x for a float x >= 0 (below 2^52).
FloatOneMinus(x) ==
    LET one == Shl(<<1>>, 0 - x.e)
    IN  IF x.m = <<>> THEN [neg |-> FALSE, m |-> <<1>>, e |-> 0]
        ELSE IF Less(one, x.m) THEN Round53(TRUE, Sub(x.m, one), x.e, FALSE)
        ELSE Round53(FALSE, Sub(one, x.m), x.e, FALSE)

\* The integer nearest to x * k for a float x, ties to the even one: what
\* Python's round(x, ndigits) gives in units of 10^-ndigits (k = 10^ndigits;
\* the rounding is exact on the value of the float), and rint(x) for k = 1.
RoundFloat(x, k) ==
    LET a    == MulNat(x.m, k)
        f    == 0 - x.e
        n    == IF f <= 0 THEN NatOf(Shl(a, x.e)) ELSE NatOf(Shr(a, f))
        half == f >= 1 /\ BitAt(a, f - 1) = 1
        rest == f >= 2 /\ LowBits(a, f - 1)
        r    == IF half /\ (rest \/ n % 2 = 1) THEN n + 1 ELSE n
    IN  IF x.neg THEN 0 - r ELSE r

\* str() of a non-negative float with two decimals given in hundredths:
\* 5000 -> "50.0", 3333 -> "33.33", 1250 -> "12.5", 82 -> "0.82".
FormatFloat2(h) ==
    LET ip == h \div 100
        fp == h % 100
    IN  ToString(ip) \o "." \o
        (IF fp % 10 = 0 THEN ToString(fp \div 10)
         ELSE IF fp < 10 THEN "0" \o ToString(fp)
         ELSE ToString(fp))

-----------------------------------------------------------------------------
(* Tokens *)

SP  == " "
NL  == "\n    "
NL2 == "\n\n    "
NL8 == "\n        "
NL88 == "\n        \n        "
\* The tokens that str.isspace() holds true of and \s+ matches.
Whitespace == {SP, NL, NL2, "\n", "\n  ", "\n\n", NL8, NL88}

\* The key that the source text """: '"', """ of line 12 of
\* report_generator.py makes: Python reads it as one triple-quoted string,
\* the characters : ' " ' , after one space and before another (a token of
\* its own in a text).  QuoteKeyStripped is the token without its final space.
QuoteKey == ": '\"', "
QuoteKeyStripped == ": '\"',"
\* The grave accent U+0060, which a TLA+ string cannot hold.
BT  == "[U+0060]"

M_Overview    == "Dataset Overview:"
M_Numeric     == "Numeric Insights:"
M_Categorical == "Categorical Insights:"
M_Health      == "Data Health:"
Markers == <<M_Overview, M_Numeric, M_Categorical, M_Health>>
MarkerSet == {Markers[i] : i \in 1..4}

-----------------------------------------------------------------------------
(* The dataset: what the pipeline reads of a pandas DataFrame.             *)
(*   rows, columns (name, numeric?) in column order, the number of missing *)
(*   cells, the number of duplicated rows, and the matrix df[num].corr()   *)
(*   over the numeric columns.  An entry of the matrix is <<v>> for the     *)
(*   coefficient v/1000, or NaN (the coefficient of a constant column).    *)

NaN == <<>>
R(v) == <<v>>

\* A column: its name, whether its dtype is a number, and the value that
\* describe() reports as its most frequent one (row top; categorical columns).
ColTop(name, numeric, top) == [name |-> name, numeric |-> numeric, top |-> top]
Col(name, numeric) == ColTop(name, numeric, <<"[value]">>)

MkDf(rows, columns, missing, dups, corr) ==
    [none |-> FALSE, rows |-> rows, columns |-> columns, missing |-> missing,
     duplicates |-> dups, corr |-> corr]

\* The argument df = None of display_ai_summary and generate_combined_report.
NoDf ==
    [none |-> TRUE, rows |-> 0, columns |-> <<>>, missing |-> 0,
     duplicates |-> 0, corr |-> <<>>]

\* df.select_dtypes(include='number') / (exclude='number') .columns.tolist()
RECURSIVE SelectNames(_, _)
SelectNames(columns, numeric) ==
    IF columns = <<>> THEN <<>>
    ELSE (IF Head(columns).numeric = numeric THEN <<Head(columns).name>> ELSE <<>>)
         \o SelectNames(Tail(columns), numeric)

-----------------------------------------------------------------------------
(* generate_data_summary: statistics extraction (ai_insight.py 109-127)    *)

\* The guard of the conditional expression of line 112: the division is
\* evaluated only when it holds.
RatioGuardMutant(rows, cols) == rows > 0
RatioGuard(rows, cols) == rows * cols > 0

\* The exception the evaluation of line 112 raises, if any.
RatioError(rows, cols) ==
    IF RatioGuard(rows, cols) /\ rows * cols = 0 THEN "ZeroDivisionError" ELSE "none"

\* Line 112: round((missing_values / (rows * cols)) * 100, 2) of Python
\* floats, in hundredths of a percent; the int 0 when the guard fails.  (No value when the division
\* raises: the 0 given then is never read.)
MissingRatioTruncated(rows, cols, missing) ==
    IF RatioGuard(rows, cols) /\ RatioError(rows, cols) = "none"
    THEN (missing * 10000) \div (rows * cols)
    ELSE 0
MissingRatio(rows, cols, missing) ==
    IF RatioGuard(rows, cols) /\ RatioError(rows, cols) = "none"
    THEN RoundFloat(FloatMul(FloatDiv(missing, rows * cols), 100), 100)
    ELSE 0

\* f"{missing_ratio}": the float prints with a decimal point, the int 0 as "0".
FormatRatio(rows, cols, ratio) ==
    IF RatioGuard(rows, cols) THEN FormatFloat2(ratio) ELSE "0"

CORR_LOW  == 400
CORR_HIGH == 999

\* Line 123: (corr_values < 0.999) & (corr_values > 0.4); NaN compares false.
CorrFilter(x) == x # NaN /\ x[1] < CORR_HIGH /\ x[1] > CORR_LOW

\* corr.unstack(): all ordered pairs of numeric columns, the diagonal included.
CorrPairs(n) == (1..n) \X (1..n)

Candidates(corr, n) == {p \in CorrPairs(n) : CorrFilter(corr[p])}

\* sort_values(ascending=False) then index[0]: an entry of largest value.  The
\* sort is not stable, and (a, b) always ties with (b, a), so any of the
\* entries of largest value can come first.
TopPairs(corr, n) ==
    {p \in Candidates(corr, n) :
        \A q \in Candidates(corr, n) : corr[q][1] <= corr[p][1]}

\* The numpy.float64 that the coefficient v/1000 names.
CorrFloat(v) ==
    LET x == FloatDiv(IF v < 0 THEN 0 - v ELSE v, 1000)
    IN  [neg |-> v < 0, m |-> x.m, e |-> x.e]

\* Line 126: round(corr_values.iloc[0], 2), in hundredths.  The value is a
\* numpy.float64, whose round is rint(x * 100) / 100.
RoundCorr(v) == RoundFloat(FloatMul(CorrFloat(v), 100), 1)

NoCorrText == <<"No strong correlations detected.">>
NoPair == <<>>

\* Lines 119-127.  top is a member of TopPairs, or NoPair when there is none.
CorrText(num_cols, corr, top) ==
    IF Len(num_cols) >= 2 /\ top # NoPair
    THEN <<"The strongest relationship (r", SP, "=", SP,
           FormatFloat2(RoundCorr(corr[top][1])), ") is between", SP, BT>>
         \o num_cols[top[1]] \o <<BT, SP, "and", SP, BT>>
         \o num_cols[top[2]] \o <<BT, ".">>
    ELSE NoCorrText

TopChoices(d) ==
    LET n == Len(SelectNames(d.columns, TRUE))
    IN  IF n >= 2 /\ TopPairs(d.corr, n) # {} THEN TopPairs(d.corr, n) ELSE {NoPair}

\* The locals of generate_data_summary after line 127.
Extract(d, top) ==
    LET rows == d.rows
        cols == Len(d.columns)
        num_cols == SelectNames(d.columns, TRUE)
    IN  [rows |-> rows, cols |-> cols,
         missing_values |-> d.missing,
         duplicates |-> d.duplicates,
         missing_ratio |-> MissingRatio(rows, cols, d.missing),
         num_cols |-> num_cols,
         cat_cols |-> SelectNames(d.columns, FALSE),
         top_pair |-> top,
         corr_text |-> CorrText(num_cols, d.corr, top)]

-----------------------------------------------------------------------------
(* generate_data_summary: the narrative (ai_insight.py 129-145)            *)

\* ', '.join(names[:5]) + (' and more' if len(names) > 5 else '')
RECURSIVE Join(_)
Join(names) ==
    IF names = <<>> THEN <<>>
    ELSE IF Len(names) = 1 THEN names[1]
    ELSE names[1] \o <<",", SP>> \o Join(Tail(names))

NameList(names) ==
    Join(Prefix(names, 5)) \o (IF Len(names) > 5 THEN <<SP, "and more">> ELSE <<>>)

Num(n) == <<ToString(n)>>

\* The text the f-string puts under each marker, up to the next marker.
OverviewPart(s) ==
    <<NL, "-", SP, "The dataset has", SP>> \o Num(s.rows) \o <<SP, "rows and", SP>>
    \o Num(s.cols) \o <<SP, "columns.", NL, "-", SP, "Contains", SP>>
    \o Num(s.missing_values) \o <<SP, "missing", SP, "values (">>
    \o <<FormatRatio(s.rows, s.cols, s.missing_ratio), "% of data) and", SP>>
    \o Num(s.duplicates) \o <<SP, "duplicate rows.", NL2>>

NumericPart(s) ==
    <<NL, "-", SP, "Numeric columns include", SP>> \o NameList(s.num_cols)
    \o <<".", NL, "-", SP>> \o s.corr_text \o <<NL2>>

CategoricalPart(s) ==
    <<NL, "-", SP, "Key categorical columns are", SP>> \o NameList(s.cat_cols)
    \o <<".", NL2>>

HealthPart(s) ==
    <<NL, "-", SP>>
    \o (IF s.duplicates = 0 THEN <<"No duplicates detected.">>
        ELSE Num(s.duplicates) \o <<SP, "duplicate rows found.">>)
    \o <<NL, "-", SP>> \o Num(s.missing_values)
    \o <<SP, "missing", SP, "values need to be handled (">>
    \o <<FormatRatio(s.rows, s.cols, s.missing_ratio), "% of total data points).", NL>>

Parts(s) == <<OverviewPart(s), NumericPart(s), CategoricalPart(s), HealthPart(s)>>

Compose(s) ==
    <<NL, M_Overview>> \o OverviewPart(s) \o <<M_Numeric>> \o NumericPart(s)
    \o <<M_Categorical>> \o CategoricalPart(s) \o <<M_Health>> \o HealthPart(s)

-----------------------------------------------------------------------------
(* generate_data_summary: the model call (ai_insight.py 147-172)           *)

max_retries_plus_one == 3 + 1
max_retries == 3

\* Line 148: if summarizer is not None
ModelAvailableMutant(handle) == TRUE
ModelAvailable(handle) == handle # None

\* Line 162: if attempt == max_retries - 1: raise retry_error
LastAttempt(a) == a = max_retries - 1

\* Lines 166-168: the handler of the outer try returns the narrative.
NoText == <<"[None]">>
OuterHandlerMutant(narr) == [raised |-> "Exception", value |-> NoText]
OuterHandler(narr) == [raised |-> "none", value |-> narr]

-----------------------------------------------------------------------------
(* display_ai_summary: section parsing (ai_insight.py 235-248)             *)

\* Index of the first occurrence of tok in text at or after position from;
\* Len(text) + 1 when there is none.
Find(text, tok, from) ==
    LET hits == {k \in from..Len(text) : text[k] = tok}
    IN  IF hits = {} THEN Len(text) + 1 ELSE Least(hits)

\* str.strip(): the whitespace tokens at both ends go, and so does the final
\* space of the last token left (QuoteKey is the one token that ends in one).
Strip(t) ==
    LET solid == {k \in 1..Len(t) : t[k] \notin Whitespace}
        kept == SubSeq(t, Least(solid), Greatest(solid))
    IN  IF solid = {} THEN <<>>
        ELSE [k \in 1..Len(kept) |->
                 IF k = Len(kept) /\ kept[k] = QuoteKey THEN QuoteKeyStripped
                 ELSE kept[k]]

\* The patterns of lines 236-239: <start>(.+?)(?=<stop>|$), the last one
\* <start>(.+?)$.  stop = NoStop stands for the pattern without alternative.
NoStop == "[no stop marker]"
Patterns ==
    <<[start |-> M_Overview,    stop |-> M_Numeric],
      [start |-> M_Numeric,     stop |-> M_Categorical],
      [start |-> M_Categorical, stop |-> M_Health],
      [start |-> M_Health,      stop |-> NoStop]>>

\* re.search(pattern, text, re.DOTALL) and group(1): the match starts at the
\* leftmost start marker that has something after it; the lazy group takes at
\* least one character and ends before the first stop marker after that, or
\* where $ matches: at the end of the text and, without re.MULTILINE, also
\* before a newline that is the last character of the text.  None when there
\* is no match.
NoMatch == <<"[no match]">>
Search(pat, text) ==
    LET i == Find(text, pat.start, 1)
        n == Len(text)
        dollar == IF n > i + 1 /\ text[n] = "\n" THEN n ELSE n + 1
        j == IF pat.stop = NoStop THEN dollar
             ELSE Min(Find(text, pat.stop, i + 2), dollar)
    IN  IF i >= n THEN NoMatch
        ELSE IF j = n + 1 /\ text[n] = "\n\n" THEN SubSeq(text, i + 1, n - 1) \o <<"\n">>
        ELSE SubSeq(text, i + 1, j - 1)

\* Lines 241-243
extract_section(pat, text) ==
    LET m == Search(pat, text)
    IN  IF m # NoMatch THEN Strip(m) ELSE <<>>

\* str.replace('-', [U+2022]) of lines 255-270
ReplaceBullets(t) == [k \in 1..Len(t) |-> IF t[k] = "-" THEN "[U+2022]" ELSE t[k]]

SectionTitles ==
    <<"Dataset Overview", "Numeric Insights", "Categorical Insights", "Data Health">>

\* Lines 245-273: the four section blocks of the insight box.
DisplaySections(text) ==
    [k \in 1..4 |-> [title  |-> SectionTitles[k],
                     parsed |-> extract_section(Patterns[k], text),
                     body   |-> ReplaceBullets(extract_section(Patterns[k], text))]]

-----------------------------------------------------------------------------
(* display_ai_summary: key metrics (ai_insight.py 232-233, 279-287)        *)

NumeralMax == 99
Numerals == {ToString(n) : n \in 0..NumeralMax}
ParseInt(tok) == CHOOSE n \in 0..NumeralMax : ToString(n) = tok

\* \s+ from position k: the first position at or after k that holds no
\* whitespace token.
SkipSpace(text, k) ==
    Least({j \in k..(Len(text) + 1) : j > Len(text) \/ text[j] \notin Whitespace})

\* int(group(1)) for the digits \d+ takes: the numeral tokens that end at
\* position k, read as one decimal number.
RECURSIVE DigitRun(_, _)
DigitRun(text, k) ==
    IF k = 0 \/ text[k] \notin Numerals THEN 0
    ELSE DigitRun(text, k - 1) * (10 ^ Len(text[k])) + ParseInt(text[k])

\* re.search(r"(\d+)\s+missing", text): the first number that is followed by
\* whitespace and the word "missing".
\* 0 when nothing matches (line 282).
MissingMatch(text) ==
    LET hits == {k \in 1..Len(text) :
                    /\ text[k] \in Numerals
                    /\ SkipSpace(text, k + 1) > k + 1
                    /\ SkipSpace(text, k + 1) <= Len(text)
                    /\ text[SkipSpace(text, k + 1)] = "missing"}
    IN  IF hits = {} THEN 0 ELSE DigitRun(text, Least(hits))

\* Line 286: the guard of the division.
QualityGuard(rows, cols) == rows * cols > 0

QualityError(rows, cols) ==
    IF QualityGuard(rows, cols) /\ rows * cols = 0 THEN "ZeroDivisionError" ELSE "none"

\* Lines 232-233, 282, 286-287.  with_df is the test df is not None.  missing_ratio is the float num/den (0/1 when
\* the guard fails); the score round((1 - missing_ratio) * 100, 1) is in
\* tenths of a percent.
Quality(text, d) ==
    LET total_rows == IF d.none THEN 0 ELSE d.rows
        total_cols == IF d.none THEN 0 ELSE Len(d.columns)
        cells == total_rows * total_cols
        missing_values == MissingMatch(text)
        num == IF QualityGuard(total_rows, total_cols) THEN missing_values ELSE 0
        den == IF QualityGuard(total_rows, total_cols) THEN cells ELSE 1
    IN  [with_df |-> ~d.none,
         total_rows |-> total_rows, total_cols |-> total_cols,
         missing_values |-> missing_values,
         ratio_num |-> num, ratio_den |-> den,
         error |-> QualityError(total_rows, total_cols),
         score |-> IF den = 0 THEN 0
                   ELSE RoundFloat(FloatMul(FloatOneMinus(FloatDiv(num, den)), 100), 10)]

\* Line 302: df.describe() raises ValueError on a frame without columns.
DescribeError(d) ==
    IF ~d.none /\ Len(d.columns) = 0 THEN "ValueError" ELSE "none"

-----------------------------------------------------------------------------
(* clean_text_for_pdf (report_generator.py 6-20)                           *)
(* A character outside ASCII is the token "[U+<code point>]".              *)

\* The replacements dict of lines 11-17: the keys of one character, QuoteKey,
\* and "\n" on every token that holds newlines.
Replacements ==
    [k \in {"[U+2014]", "[U+2013]", "'", QuoteKey, "[U+2022]", "[U+2026]", "[U+26A1]",
            "[U+2728]", "[U+1F525]", "[U+1F4CA]", "[U+1F4C8]", "[U+1F4C9]", "[U+2705]",
            "[U+274C]", "\n", "\n  ", "\n\n", NL, NL2, NL8, NL88} |->
        CASE k \in {"[U+2014]", "[U+2013]", "[U+2022]"} -> "-"
          [] k = "'" -> "'"
          [] k = QuoteKey -> "\""
          [] k = "[U+2026]" -> "..."
          [] k \in {"[U+26A1]", "[U+2728]", "[U+1F525]"} -> "*"
          [] k = "[U+1F4CA]" -> "[Chart]"
          [] k \in {"[U+1F4C8]", "[U+1F4C9]"} -> "[Graph]"
          [] k = "[U+2705]" -> "[OK]"
          [] k = "[U+274C]" -> "[X]"
          [] k = "\n" -> "\n  "
          [] k = "\n  " -> "\n    "
          [] k = NL -> "\n      "
          [] k = NL2 -> "\n  \n      "
          [] k = "\n\n" -> "\n  \n  "
          [] k = NL8 -> "\n          "
          [] k = NL88 -> "\n          \n          "]

\* Lines 18-20.  The key of "[Warning]" is the two characters U+26A0 U+FE0F.
clean_text_for_pdf(text) ==
    LET piece == [k \in 1..Len(text) |->
            IF k < Len(text) /\ text[k] = "[U+26A0]" /\ text[k + 1] = "[U+FE0F]"
                THEN <<"[Warning]">>
            ELSE IF k > 1 /\ text[k] = "[U+FE0F]" /\ text[k - 1] = "[U+26A0]"
                THEN <<>>
            ELSE IF text[k] \in DOMAIN Replacements
                THEN <<Replacements[text[k]]>>
            ELSE <<text[k]>>]
    IN  Flatten(piece, 1, Len(text))

\* The characters the core font Arial of FPDF cannot encode (latin-1).
NonLatin1 ==
    {"[U+2014]", "[U+2013]", "[U+2018]", "[U+2019]", "[U+201C]", "[U+201D]",
     "[U+2022]", "[U+2026]", "[U+26A1]", "[U+2728]", "[U+1F525]", "[U+1F4CA]",
     "[U+1F4C8]", "[U+1F4C9]", "[U+2705]", "[U+274C]", "[U+26A0]", "[U+FE0F]",
     "[U+1F600]", "[U+4E2D]"}
Encodable(text) == \A k \in 1..Len(text) : text[k] \notin NonLatin1

-----------------------------------------------------------------------------
(* generate_combined_report (report_generator.py 22-103)                   *)

\* format(n, ','): the digits in groups of three.
RECURSIVE Thousands(_)
Thousands(n) ==
    IF n < 1000 THEN ToString(n)
    ELSE Thousands(n \div 1000) \o ","
         \o (IF n % 1000 < 10 THEN "00" ELSE IF n % 1000 < 100 THEN "0" ELSE "")
         \o ToString(n % 1000)

\* Lines 62-68
ReportOverview(d) ==
    <<NL8, "Dataset Statistics:", NL8, "-", SP, "Total Records:", SP, Thousands(d.rows)>>
    \o <<NL8, "-", SP, "Total Features:", SP>> \o Num(Len(d.columns))
    \o <<NL8, "-", SP, "Missing Values:", SP, Thousands(d.missing)>>
    \o <<NL8, "-", SP, "Duplicate Rows:", SP, Thousands(d.duplicates), NL8>>

Ellipsis(names) == IF Len(names) > 5 THEN <<"...">> ELSE <<>>

\* Lines 76-85
ReportDataTypes(d) ==
    LET numeric_cols == SelectNames(d.columns, TRUE)
        categorical_cols == SelectNames(d.columns, FALSE)
    IN  <<NL8, "Numeric Features (">> \o Num(Len(numeric_cols)) \o <<"):", NL8>>
        \o Join(Prefix(numeric_cols, 5)) \o Ellipsis(numeric_cols)
        \o <<NL88, "Categorical Features (">>
        \o Num(Len(categorical_cols)) \o <<"):", NL8>>
        \o Join(Prefix(categorical_cols, 5)) \o Ellipsis(categorical_cols) \o <<NL8>>

\* df.select_dtypes(...) as columns
RECURSIVE SelectCols(_, _)
SelectCols(columns, numeric) ==
    IF columns = <<>> THEN <<>>
    ELSE (IF Head(columns).numeric = numeric THEN <<Head(columns)>> ELSE <<>>)
         \o SelectCols(Tail(columns), numeric)

\* df.describe(): the numeric columns when there are any, else all columns.
DescribeColumns(d) ==
    IF SelectCols(d.columns, TRUE) # <<>> THEN SelectCols(d.columns, TRUE)
    ELSE SelectCols(d.columns, FALSE)
DescribeStats(d) ==
    IF SelectNames(d.columns, TRUE) # <<>>
    THEN <<"count", "mean", "std", "min", "25%", "50%", "75%", "max">>
    ELSE <<"count", "unique", "top", "freq">>

\* Lines 91-92: a line for every statistic of the column.  A number prints as
\* the token "[value]"; the statistic top is a value of the column.
RECURSIVE StatLines(_, _)
StatLines(names, col) ==
    IF names = <<>> THEN <<>>
    ELSE <<"-", SP, Head(names) \o ":", SP>>
         \o (IF Head(names) = "top" THEN col.top ELSE <<"[value]">>)
         \o <<"\n">> \o StatLines(Tail(names), col)

RECURSIVE StatColumns(_, _)
StatColumns(cols, statnames) ==
    IF cols = <<>> THEN <<>>
    ELSE Head(cols).name \o <<":", "\n">> \o StatLines(statnames, Head(cols)) \o <<"\n">>
         \o StatColumns(Tail(cols), statnames)

\* Lines 88-94
ReportStats(d) ==
    <<"Statistical Summary:", "\n\n">>
    \o StatColumns(Prefix(DescribeColumns(d), 5), DescribeStats(d))

Header == [kind |-> "header", title |-> "DataVista - AI Insight Report", content |-> <<>>]
\* Lines 29-33: the cell FPDF writes at the foot of every page.
Footer == [kind |-> "footer", title |-> "", content |-> <<"Generated on", SP, "[date]">>]
Section(title, content) == [kind |-> "section", title |-> title, content |-> content]

\* Lines 57-95: the add_section calls the function makes, in order, each with
\* the exception that ends the function before the call ("none" if none).
SectionCallsMutant(text, d) ==
    <<Section("AI-Generated Insights", clean_text_for_pdf(text))>>
    \o (IF ~d.none THEN <<Section("Dataset Overview", ReportOverview(d))>> ELSE <<>>)
    \o (IF ~d.none /\ DescribeError(d) = "none"
        THEN <<Section("Data Types Analysis", ReportDataTypes(d)),
               Section("Statistical Analysis", ReportStats(d))>>
        ELSE IF ~d.none THEN <<Section("Data Types Analysis", ReportDataTypes(d))>>
        ELSE <<>>)
SectionCalls(text, d) ==
    (IF ~d.none THEN <<Section("Dataset Overview", ReportOverview(d))>> ELSE <<>>)
    \o <<Section("AI-Generated Insights", clean_text_for_pdf(text))>>
    \o (IF ~d.none /\ DescribeError(d) = "none"
        THEN <<Section("Data Types Analysis", ReportDataTypes(d)),
               Section("Statistical Analysis", ReportStats(d))>>
        ELSE IF ~d.none THEN <<Section("Data Types Analysis", ReportDataTypes(d))>>
        ELSE <<>>)

\* FPDF: add_page() calls header(); a section whose text overflows the page
\* makes FPDF start a new page, which calls footer() for the page that ends
\* and header() for the new one; output() calls footer() for the last page.
\* A text the font cannot encode raises, in multi_cell (eager) or in output,
\* by the version of the library.
RECURSIVE Emit(_, _, _, _)
Emit(cs, k, breaks, eager) ==
    IF k > Len(cs) THEN <<>>
    ELSE IF eager /\ ~Encodable(cs[k].content) THEN <<>>
    ELSE <<cs[k]>> \o (IF k \in breaks THEN <<Footer, Header>> ELSE <<>>)
         \o Emit(cs, k + 1, breaks, eager)

ReportPath == "DataVista_Full_Report.pdf"

\* generate_combined_report(summary, df), lines 45-103.
generate_combined_report(text, d, breaks, eager) ==
    LET cs    == SectionCalls(text, d)
        bad == \E k \in 1..Len(cs) : ~Encodable(cs[k].content)
        err == IF eager /\ bad THEN "EncodingError"
               ELSE IF DescribeError(d) # "none" THEN DescribeError(d)
               ELSE IF bad THEN "EncodingError"
               ELSE "none"
    IN  [with_df |-> ~d.none,
         blocks |-> <<Header>> \o Emit(cs, 1, breaks, eager)
                    \o (IF (eager /\ bad) \/ DescribeError(d) # "none" THEN <<>>
                        ELSE <<Footer>>),
         raised |-> err,
         written |-> err = "none",
         path |-> IF err = "none" THEN ReportPath ELSE None]

-----------------------------------------------------------------------------
(* The datasets and the model outputs the pipeline is run on               *)

Schema ==
    <<Col(<<"age">>, TRUE), Col(<<"city">>, FALSE), Col(<<"price">>, TRUE),
      Col(<<"name">>, FALSE), Col(<<"score">>, TRUE), Col(<<"zip">>, FALSE)>>

\* The matrix of uncorrelated columns; NaN throughout with fewer than 2 rows.
DefaultCorr(rows, n) ==
    [p \in CorrPairs(n) |->
        IF rows < 2 THEN NaN ELSE IF p[1] = p[2] THEN R(1000) ELSE R(0)]

ColumnsOf(c) == Prefix(Schema, c)
NumericCount(columns) == Len(SelectNames(columns, TRUE))

\* Every shape up to MaxRows x MaxCols, with every count of missing cells
\* (and one duplicated row in every other one that has two rows or more).
DfShapes ==
    UNION {{MkDf(rc[1], ColumnsOf(rc[2]), m, IF rc[1] >= 2 THEN m % 2 ELSE 0,
                 DefaultCorr(rc[1], NumericCount(ColumnsOf(rc[2])))) :
              m \in 0..(rc[1] * rc[2])} :
           rc \in (0..MaxRows) \X (0..MaxCols)}

\* Three numeric columns with combinations of these coefficients.
CorrValues == {NaN, R(0 - 800), R(400), R(401), R(820), R(999)}
SymCorr(v12, v13, v23) ==
    [p \in CorrPairs(3) |->
        IF p[1] = p[2] THEN R(1000)
        ELSE IF {p[1], p[2]} = {1, 2} THEN v12
        ELSE IF {p[1], p[2]} = {1, 3} THEN v13
        ELSE v23]
ThreeNumeric == <<Col(<<"a">>, TRUE), Col(<<"b">>, TRUE), Col(<<"c">>, TRUE)>>
DfCorr ==
    {MkDf(3, ThreeNumeric, 0, 0, SymCorr(x, y, z)) :
        x \in CorrValues, y \in CorrValues, z \in {R(0), R(820)}}

\* Columns whose names may hold marker text or characters outside ASCII.
ColumnNames ==
    {<<"age">>, <<M_Numeric>>, <<M_Categorical>>, <<M_Health>>,
     <<"caf", "[U+00E9]">>, <<"[U+1F600]">>}
PairCorr == [p \in CorrPairs(2) |-> IF p[1] = p[2] THEN R(1000) ELSE R(820)]
DfNames ==
    {MkDf(2, <<Col(n, t), Col(<<"city">>, FALSE), Col(<<"price">>, TRUE)>>, 1, 0,
          IF t THEN PairCorr ELSE DefaultCorr(2, 1)) :
        n \in ColumnNames, t \in BOOLEAN}

\* More than five columns of each kind.
DfWide ==
    {MkDf(3, <<Col(<<"n1">>, TRUE), Col(<<"n2">>, TRUE), Col(<<"n3">>, TRUE),
               Col(<<"n4">>, TRUE), Col(<<"n5">>, TRUE), Col(<<"n6">>, TRUE),
               Col(<<"c1">>, FALSE), Col(<<"c2">>, FALSE), Col(<<"c3">>, FALSE),
               Col(<<"c4">>, FALSE), Col(<<"c5">>, FALSE), Col(<<"c6">>, FALSE)>>,
          2, 1, DefaultCorr(3, 6))}

\* Only categorical columns, so that describe() reports the row top: a value
\* of the column, inside latin-1 or outside it.
DfCells ==
    {MkDf(3, <<ColTop(<<"city">>, FALSE, top)>>, 0, 1, DefaultCorr(3, 0)) :
        top \in {<<"Paris">>, <<"[U+4E2D]">>}}

Datasets == DfShapes \cup DfCorr \cup DfNames \cup DfWide \cup DfCells

\* What summarizer(...)[0]['summary_text'] can be: any text.
ModelTexts ==
    {<<"The dataset has 3 rows and 2 columns.">>,
     <<"Clean data", SP, "[U+1F600]">>,
     <<"Report", QuoteKey, "[U+2014]", SP, "7", "\n\n", "missing", SP, "values", NL88,
       M_Health, SP, "[U+26A0]", "[U+FE0F]", QuoteKey>>,
     <<M_Overview, "\n\n", "3 rows.", NL8, M_Categorical, SP, "one column.", SP,
       M_Health, SP, "fine.", "\n">>}

-----------------------------------------------------------------------------
(* The state machine *)

NoStats == "None"
NoQuality == "None"
NoPdf == "None"

\* What the file at ReportPath holds, by the call that wrote it last: the
\* render of the current run of this session's script, the export of another
\* session (the k-th of OtherSessions), or some call before the current run
\* began, whose output no step of the run reads.  open(name, 'wb') empties
\* the file before the bytes are written; a writer that finds the bytes of
\* another document in the file replaces as many of them as it writes.
EarlierFile == [by |-> "an earlier run", k |-> 0]
Truncated == [by |-> "nobody: opened for writing", k |-> 0]
ThisRender == [by |-> "this run", k |-> 0]
OtherRender(k) == [by |-> "another session", k |-> k]
Mixed == [by |-> "two writers", k |-> 0]

\* The file after a writer that opened it at 0 has written doc: the document,
\* or its bytes followed by the rest of a longer document that another writer
\* wrote meanwhile (the lengths are not followed).
Written(held, doc) == IF held = Truncated THEN {doc} ELSE {doc, Mixed}

NoDownload == <<>>

\* What a reader gets of a file that is no document: no bytes or the first
\* bytes of one, or the bytes of two.
Bytes(what) == <<[kind |-> "bytes", title |-> "", content |-> <<what>>]>>

\* The summary and the dataset of the other sessions that export: one session.
OtherSessions ==
    <<[summary |-> <<M_Overview, SP, "2 rows.", SP, M_Health, SP, "1", SP, "missing",
                     SP, "value.">>,
       df |-> MkDf(2, ColumnsOf(2), 1, 0, DefaultCorr(2, 1))]>>

\* The document the k-th of them renders.
OtherDocument(k) ==
    generate_combined_report(OtherSessions[k].summary, OtherSessions[k].df,
                             {}, FALSE).blocks

\* open(file_path, "rb").read()
ReadFile(held, own) ==
    IF held = ThisRender THEN own
    ELSE IF held.by = "another session" THEN OtherDocument(held.k)
    ELSE IF held = Truncated THEN Bytes("[no document: the file is being written]")
    ELSE Bytes("[no document: the bytes of two documents]")

Init ==
    /\ df \in Datasets
    /\ summarizer \in {None, "pipeline"}
    /\ pc = "idle"
    /\ attempt = 0
    /\ invoked = <<>>
    /\ stats = NoStats
    /\ narrative = NoText
    /\ summary = NoText
    /\ calls = 0
    /\ raised = "none"
    /\ sections = <<>>
    /\ quality = NoQuality
    /\ pdf = NoPdf
    /\ file = EarlierFile
    /\ download = NoDownload
    /\ other = 0

\* generate_data_summary(df) up to the first call of the model (lines 106-153).
Call ==
    /\ pc = "idle"
    /\ calls < MaxCalls
    /\ \E top \in TopChoices(df) :
        LET s == Extract(df, top)
            err == RatioError(df.rows, Len(df.columns))
        IN  /\ stats' = s
            /\ raised' = err
            /\ narrative' = IF err = "none" THEN Compose(s) ELSE NoText
            /\ IF err = "none" /\ ModelAvailable(summarizer)
               THEN pc' = "invoke" /\ summary' = NoText
               ELSE /\ pc' = "summarized"
                    /\ summary' = IF err = "none" THEN Compose(s) ELSE NoText
    /\ calls' = calls + 1
    /\ attempt' = 0
    /\ invoked' = <<>>
    /\ UNCHANGED <<df, summarizer, sections, quality, pdf, file, download, other>>

\* Lines 154-160: the model returns a summary, which is returned at once.
InvokeReturns ==
    /\ pc = "invoke"
    /\ summarizer # None
    /\ \E t \in ModelTexts :
        /\ summary' = t
        /\ invoked' = Append(invoked, [ok |-> TRUE, text |-> t])
    /\ pc' = "summarized"
    /\ UNCHANGED <<df, summarizer, attempt, stats, narrative, calls, raised,
                   sections, quality, pdf, file, download, other>>

\* Lines 161-168: the model call raises.  The last attempt re-raises into the
\* outer handler; an earlier one goes round the loop.  A loop that runs out
\* lets the function return None.
InvokeRaises ==
    /\ pc = "invoke"
    /\ invoked' = Append(invoked, [ok |-> FALSE, text |-> NoText])
    /\ IF LastAttempt(attempt)
       THEN /\ summary' = OuterHandler(narrative).value
            /\ raised' = OuterHandler(narrative).raised
            /\ pc' = "summarized"
            /\ UNCHANGED attempt
       ELSE IF attempt + 1 < max_retries
       THEN /\ attempt' = attempt + 1
            /\ UNCHANGED <<summary, raised, pc>>
       ELSE /\ summary' = NoText
            /\ pc' = "summarized"
            /\ UNCHANGED <<attempt, raised>>
    /\ UNCHANGED <<df, summarizer, stats, narrative, calls, sections, quality, pdf,
                   file, download, other>>

\* display_ai_summary(summary, df) or display_ai_summary(summary)
Display ==
    /\ pc = "summarized"
    /\ raised = "none"
    /\ summary # NoText
    /\ \E useDf \in BOOLEAN :
        LET d == IF useDf THEN df ELSE NoDf
            q == Quality(summary, d)
        IN  /\ sections' = DisplaySections(summary)
            /\ quality' = q
            /\ raised' = IF q.error # "none" THEN q.error ELSE DescribeError(d)
    /\ pc' = "displayed"
    /\ attempt' = 0
    /\ invoked' = <<>>
    /\ UNCHANGED <<df, summarizer, stats, narrative, summary, calls, pdf, file,
                   download, other>>

\* Whether the library raises in multi_cell or in output shows only when some
\* text cannot be encoded.
LibraryChoices(text, d) ==
    IF \A k \in 1..Len(SectionCalls(text, d)) : Encodable(SectionCalls(text, d)[k].content)
    THEN {FALSE} ELSE BOOLEAN

\* The sections whose text overflowed the page.
PageBreaks(n) == {b \in SUBSET (1..n) : Cardinality(b) <= MaxPageBreaks}

\* app.py 146-148: the display returned and the button is pressed.  The call
\* is generate_combined_report(summary, df), with the dataset the display was
\* given (or with None, as the display).  The call renders the document and,
\* unless that raised, pdf.output opens the file for writing, which empties it
\* (lines 45-101).
Report ==
    /\ pc = "displayed"
    /\ raised = "none"
    /\ LET d == IF quality.with_df THEN df ELSE NoDf
       IN  \E eager \in LibraryChoices(summary, d),
              breaks \in PageBreaks(IF quality.with_df THEN 4 ELSE 1) :
                pdf' = generate_combined_report(summary, d, breaks, eager)
    /\ file' = IF pdf'.written THEN Truncated ELSE file
    /\ raised' = pdf'.raised
    /\ pc' = IF pdf'.written THEN "writing" ELSE "reported"
    /\ attempt' = 0
    /\ invoked' = <<>>
    /\ UNCHANGED <<df, summarizer, stats, narrative, summary, calls, sections, quality,
                   download, other>>

\* Lines 101-103: pdf.output writes the bytes of the document and closes the
\* file; the path is returned.
Output ==
    /\ pc = "writing"
    /\ file' \in Written(file, ThisRender)
    /\ pc' = "reported"
    /\ UNCHANGED <<df, summarizer, attempt, invoked, stats, narrative, summary, calls,
                   raised, sections, quality, pdf, download, other>>

\* app.py 149-155: the session opens the path the render returned and hands
\* the file to the download button, which reads it.  What it reads is what the
\* file holds by then.
ReadBack ==
    /\ pc = "reported"
    /\ raised = "none"
    /\ pdf.written
    /\ download' = ReadFile(file, pdf.blocks)
    /\ pc' = "downloaded"
    /\ UNCHANGED <<df, summarizer, attempt, invoked, stats, narrative, summary, calls,
                   raised, sections, quality, pdf, file, other>>

\* Another session of the application exports its report: its call of
\* generate_combined_report renders and opens the same path for writing
\* (lines 99-101) ...
OtherOpen ==
    /\ other = 0
    /\ \E k \in DOMAIN OtherSessions :
        /\ generate_combined_report(OtherSessions[k].summary, OtherSessions[k].df,
                                    {}, FALSE).written
        /\ other' = k
    /\ file' = Truncated
    /\ UNCHANGED <<df, summarizer, pc, attempt, invoked, stats, narrative, summary,
                   calls, raised, sections, quality, pdf, download>>

\* ... and writes the bytes of its document.
OtherOutput ==
    /\ other # 0
    /\ file' \in Written(file, OtherRender(other))
    /\ other' = 0
    /\ UNCHANGED <<df, summarizer, pc, attempt, invoked, stats, narrative, summary,
                   calls, raised, sections, quality, pdf, download>>

\* The script runs again from the top.  What the file holds is from now on
\* the output of a call before the current run.
Rerun ==
    /\ pc \in {"summarized", "displayed", "reported", "downloaded"}
    /\ calls < MaxCalls
    /\ pc' = "idle"
    /\ attempt' = 0
    /\ invoked' = <<>>
    /\ stats' = NoStats
    /\ narrative' = NoText
    /\ summary' = NoText
    /\ raised' = "none"
    /\ sections' = <<>>
    /\ quality' = NoQuality
    /\ pdf' = NoPdf
    /\ file' = EarlierFile
    /\ download' = NoDownload
    /\ UNCHANGED <<df, summarizer, calls, other>>

\* One session of the application, alone.
Next ==
    Call \/ InvokeReturns \/ InvokeRaises \/ Display \/ Report \/ Output
    \/ ReadBack \/ Rerun

Spec == Init /\ [][Next]_vars

\* The session and another session that exports, on datasets of 2 x 2.
ExportDatasets == {d \in DfShapes : d.rows = 2 /\ Len(d.columns) = 2}

InitExport == Init /\ df \in ExportDatasets

NextExport == Next \/ OtherOpen \/ OtherOutput

SpecExport == InitExport /\ [][NextExport]_vars

-----------------------------------------------------------------------------
(* Properties *)

Failed == [ok |-> FALSE, text |-> NoText]
AllFailed == <<Failed, Failed, Failed>>

\* C1: a call with an initialized model whose 3 invocations all raise returns
\* normally, and what it returns is the composed narrative, unmodified.
C1_FallbackAfterThreeFailures ==
    (pc = "summarized" /\ summarizer # None /\ invoked = AllFailed)
        => (raised = "none" /\ summary = Compose(stats))

C1_Witness ==
    /\ pc = "summarized"
    /\ summarizer # None
    /\ invoked = AllFailed
    /\ summary = narrative
    /\ Len(summary) > 4

\* C2: when the model failed to initialize (the handle is None), no call ever
\* invokes the summarizer, the handle stays None for ever, and every call
\* returns the composed narrative, unmodified.
C2_NoModelShortCircuits ==
    /\ [](summarizer = None =>
            /\ pc # "invoke"
            /\ invoked = <<>>
            /\ (pc = "summarized" => raised = "none" /\ summary = Compose(stats)))
    /\ [][summarizer = None => summarizer' = None]_vars

C2_Witness ==
    /\ summarizer = None
    /\ calls = 2
    /\ pc = "summarized"
    /\ summary = narrative
    /\ Len(summary) > 4

\* C3: a call invokes the summarizer at most 3 times, every invocation but the
\* last one of a call failed, and a successful invocation ends the call, which
\* returns the text that invocation produced.
C3_RetryDiscipline ==
    /\ Len(invoked) <= 3
    /\ \A k \in 1..(Len(invoked) - 1) : ~invoked[k].ok
    /\ (invoked # <<>> /\ invoked[Len(invoked)].ok) =>
            /\ pc = "summarized"
            /\ raised = "none"
            /\ summary = invoked[Len(invoked)].text
    /\ pc = "invoke" => (attempt = Len(invoked) /\ attempt < 3)

C3_Witness ==
    /\ pc = "summarized"
    /\ Len(invoked) = 3
    /\ ~invoked[1].ok /\ ~invoked[2].ok /\ invoked[3].ok
    /\ summary = invoked[3].text
    /\ summary # narrative

Cells == stats.rows * stats.cols

\* C4 as stated: with at least one cell, missing_ratio lies in [0, 1] and
\* equals missing_count / (row_count x column_count) exactly.  (The ratio is
\* held in hundredths of the unit the narrative prints it in.)
C4_AsStated ==
    (pc # "idle" /\ Cells > 0) =>
        /\ stats.missing_ratio >= 0
        /\ stats.missing_ratio <= 100
        /\ stats.missing_ratio * Cells = 100 * stats.missing_values

\* C4 as amended: with at least one cell, missing_ratio is a percentage in
\* [0, 100], the multiple of 0.01 nearest to
\* 100 x missing_count / (row_count x column_count).
C4_Percentage ==
    (pc # "idle" /\ Cells > 0) =>
        /\ stats.missing_ratio >= 0
        /\ stats.missing_ratio <= 10000
        /\ 2 * (stats.missing_ratio * Cells - 10000 * stats.missing_values) <= Cells
        /\ 2 * (10000 * stats.missing_values - stats.missing_ratio * Cells) <= Cells

C4_Witness ==
    /\ pc = "summarized"
    /\ Cells = 3
    /\ stats.missing_values = 2
    /\ stats.missing_ratio = 6667

\* C5: with 0 rows or 0 columns the missing ratio is 0 and no division is
\* performed, in the statistics extraction and in the data-quality
\* computation of display_ai_summary.
C5_NoDivisionByZero ==
    /\ (pc # "idle" /\ df.rows * Len(df.columns) = 0) =>
            /\ raised # "ZeroDivisionError"
            /\ stats.missing_ratio = 0
            /\ ~RatioGuard(stats.rows, stats.cols)
    /\ (pc = "displayed" /\ quality.total_rows * quality.total_cols = 0) =>
            /\ raised # "ZeroDivisionError"
            /\ quality.error = "none"
            /\ quality.ratio_num = 0
            /\ quality.score = 1000

C5_Witness ==
    /\ pc = "displayed"
    /\ stats.rows = 0 /\ stats.cols > 0
    /\ stats.missing_ratio = 0
    /\ quality.total_rows = 0 /\ quality.total_cols > 0
    /\ quality.missing_values = 7
    /\ quality.ratio_num = 0
    /\ raised = "none"

Abs(x) == IF x < 0 THEN 0 - x ELSE x

\* The pairs of numeric columns whose coefficient magnitude lies strictly
\* between 0.4 and 0.999.
StrongPairs ==
    {p \in CorrPairs(Len(stats.num_cols)) :
        /\ df.corr[p] # NaN
        /\ Abs(df.corr[p][1]) > 400
        /\ Abs(df.corr[p][1]) < 999}

\* C6: with at least 2 numeric columns the reported pair is one of highest
\* coefficient among the pairs with 0.4 < |r| < 0.999; with no such pair, or
\* fewer than 2 numeric columns, no pair is reported and the narrative says
\* "No strong correlations detected."
C6_TopCorrelationByMagnitude ==
    pc # "idle" =>
        IF Len(stats.num_cols) >= 2 /\ StrongPairs # {}
        THEN /\ stats.top_pair \in StrongPairs
             /\ \A q \in StrongPairs : df.corr[q][1] <= df.corr[stats.top_pair][1]
             /\ stats.corr_text # NoCorrText
        ELSE /\ stats.top_pair = NoPair
             /\ stats.corr_text = NoCorrText

HasMarker(text) == \E k \in 1..Len(text) : text[k] \in MarkerSet

\* C7: displaying a text that holds none of the four markers does not raise
\* in the parsing and yields a single section, titled "Summary", whose body
\* is the text verbatim (and so is not empty).
C7_UnparsedTextIsOneSection ==
    (pc = "displayed" /\ ~HasMarker(summary)) =>
        /\ raised # "ParseError"
        /\ Len(sections) = 1
        /\ sections[1].title = "Summary"
        /\ sections[1].parsed = summary
        /\ sections[1].parsed # <<>>

\* C8: on the fallback path the narrative holds the four markers, which come
\* first in their order, and parsing the narrative recovers 4 sections, each
\* of them not empty, equal to the text composed under its marker, and free
\* of every later marker, whatever the column names are.
C8_NarrativeRoundTrip ==
    (pc = "displayed" /\ summary = narrative) =>
        /\ \A k \in 1..4 : Find(narrative, Markers[k], 1) <= Len(narrative)
        /\ \A k \in 1..3 :
                Find(narrative, Markers[k], 1) < Find(narrative, Markers[k + 1], 1)
        /\ Len(sections) = 4
        /\ \A k \in 1..4 :
            /\ sections[k].title = SectionTitles[k]
            /\ sections[k].parsed # <<>>
            /\ sections[k].parsed = Strip(Parts(stats)[k])
            /\ \A j \in (k + 1)..4, i \in 1..Len(sections[k].parsed) :
                    sections[k].parsed[i] # Markers[j]

SectionBlocks(blocks) ==
    LET at == [k \in 1..Len(blocks) |->
                    IF blocks[k].kind = "section" THEN <<blocks[k]>> ELSE <<>>]
    IN  Flatten(at, 1, Len(blocks))

\* The blocks without the page footers.
BodyBlocks(blocks) ==
    LET at == [k \in 1..Len(blocks) |->
                    IF blocks[k].kind # "footer" THEN <<blocks[k]>> ELSE <<>>]
    IN  Flatten(at, 1, Len(blocks))

Titles(blocks) == [k \in 1..Len(blocks) |-> blocks[k].title]

\* C9 as stated (page footers apart): every rendered report holds, once each
\* and in this order, the
\* header, "Dataset Overview" (from the dataset), "AI-Generated Insights" (the
\* sanitized summary), "Data Types Analysis" and the statistical summary.
C9_AsStated ==
    (pc = "reported" /\ pdf.written) =>
        LET blocks == BodyBlocks(pdf.blocks)
        IN  /\ Len(blocks) = 5
            /\ blocks[1] = Header
            /\ Titles(SubSeq(blocks, 2, 4)) =
                    <<"Dataset Overview", "AI-Generated Insights", "Data Types Analysis">>
            /\ blocks[2].content = ReportOverview(df)
            /\ blocks[3].content = clean_text_for_pdf(summary)
            /\ blocks[5].kind = "section"
            /\ Head(blocks[5].content) = "Statistical Summary:"

\* C9 as amended: a rendered report opens with the page header, which comes
\* again with every further page, after the footer of the page before; the
\* footer of the last page ends the report.  With a dataset its sections are, once each
\* and in this order, "Dataset Overview" (from the dataset), "AI-Generated
\* Insights" (the sanitized summary), "Data Types Analysis" and "Statistical
\* Analysis" (whose text starts "Statistical Summary:"); without a dataset
\* (df is None) the only section is "AI-Generated Insights".
C9_SectionOrder ==
    (pc = "reported" /\ pdf.written) =>
        LET secs == SectionBlocks(pdf.blocks)
        IN  /\ pdf.blocks[1] = Header
            /\ pdf.blocks[2].kind = "section"
            /\ pdf.blocks[Len(pdf.blocks)] = Footer
            /\ \A k \in 2..Len(pdf.blocks) :
                    pdf.blocks[k] = Header => pdf.blocks[k - 1] = Footer
            /\ IF pdf.with_df
               THEN /\ Titles(secs) =
                        <<"Dataset Overview", "AI-Generated Insights",
                          "Data Types Analysis", "Statistical Analysis">>
                    /\ secs[1].content = ReportOverview(df)
                    /\ secs[2].content = clean_text_for_pdf(summary)
                    /\ secs[3].content = ReportDataTypes(df)
                    /\ Head(secs[4].content) = "Statistical Summary:"
               ELSE /\ Titles(secs) = <<"AI-Generated Insights">>
                    /\ secs[1].content = clean_text_for_pdf(summary)

C9_Witness ==
    /\ pc = "reported"
    /\ pdf.written
    /\ pdf.with_df
    /\ Len(pdf.blocks) = 8
    /\ pdf.blocks[4] = Footer
    /\ pdf.blocks[5] = Header
    /\ summary # narrative

\* C10: rendering never raises on characters outside the substitution table:
\* after clean_text_for_pdf every character handed to the PDF writer can be
\* encoded, and the rendering does not end in an encoding error.
C10_SanitizedTextIsEncodable ==
    pc = "reported" =>
        /\ Encodable(clean_text_for_pdf(summary))
        /\ \A k \in 1..Len(pdf.blocks) : Encodable(pdf.blocks[k].content)
        /\ raised # "EncodingError"

\* C11: the document a session reads back after its render call is the one
\* that call rendered from the session's own summary and dataset, also when
\* another session's export falls between the render and the read.
C11_CallerReadsOwnDocument ==
    pc = "downloaded" =>
        /\ download = pdf.blocks
        /\ \E k \in 1..Len(download) :
                /\ download[k].title = "AI-Generated Insights"
                /\ download[k].content = clean_text_for_pdf(summary)

\* The first position after i that holds a marker later than the k-th in the
\* fixed order; the position after the end of the text when there is none.
NextKnownMarker(text, k, i) ==
    Least({j \in (i + 1)..(Len(text) + 1) :
            j > Len(text) \/ text[j] \in {Markers[m] : m \in (k + 1)..4}})

\* C12: for every displayed text and each of the four markers, the body of
\* the section is the (stripped) text between the first occurrence of its
\* marker and the next later marker that occurs after it, whichever of the
\* later markers that is, or the end of the text; a section whose marker is
\* missing has an empty body.
C12_BodyStopsAtNextKnownMarker ==
    pc = "displayed" =>
        /\ Len(sections) = 4
        /\ \A k \in 1..4 :
            LET i == Find(summary, Markers[k], 1)
            IN  sections[k].parsed =
                    IF i > Len(summary) THEN <<>>
                    ELSE Strip(SubSeq(summary, i + 1,
                                      NextKnownMarker(summary, k, i) - 1))

====
